---- MODULE Spec2Model ----
(***************************************************************************)
(* bevy_instancing (src/src/lib.rs): GPU-instanced drawing for bevy.        *)
(*                                                                         *)
(* One frame of the render sub-app runs the stages Extract, Prepare, Queue  *)
(* and Render in that order.  The plugin contributes                        *)
(*   prepare_instance_buffers        (Prepare, lib.rs 83-99)                *)
(*   queue_instance_material_meshes  (Queue,   lib.rs 149-268)              *)
(*   DrawMeshInstanced::render       (Render,  lib.rs 117-146)              *)
(*   InstanceMaterialPipeline::specialize      (lib.rs 291-299)             *)
(*                                                                         *)
(* Option<T> is modelled as a sequence: << >> is None, <<x>> is Some(x).    *)
(***************************************************************************)
EXTENDS Integers, Sequences, FiniteSets, TLC

VARIABLES
    pc,               \* render stage about to run: extract, prepare, queue, render, cleanup
    frame,            \* number of the current frame
    msaa,             \* Res<Msaa>.samples
    views,            \* view -> [hdr, tonemapping, visible]  (ExtractedView, Tonemapping, VisibleEntities)
    view_order,       \* iteration order of the `views` query
    entities,         \* entity -> [material, mesh, data, transform]
                      \*   (Handle<M>, Handle<Mesh>, InstanceDataVec<D>, MeshUniform.transform)
    render_materials, \* ids of the materials that are GPU-resident (RenderMaterials<M>)
    render_meshes,    \* ids of the meshes that are GPU-resident (RenderAssets<Mesh>)
    instance_buffers, \* entity -> Option<InstanceBuffer>
    phases,           \* view -> [opaque, alpha_mask, transparent], each a sequence of phase items
    pipelines,        \* SpecializedMeshPipelines: set of [layout, key, id]
    pipeline_cache,   \* PipelineCache: sequence of queued descriptors, id = index
    qpos,             \* position of the Queue system: index into QueueList
    qlog,             \* what the Queue system did at each position it reached, in order
    errors,           \* error! lines written by the Queue system
    resolved,         \* every successful pipelines.specialize call so far: its inputs and the id it returned
    rpos,             \* position of the Render stage: index into RenderList
    pass,             \* what each executed phase item recorded on the TrackedRenderPass
    call_in,          \* arguments of a single call of one function (SpecPrepare, SpecRender);
                      \*   in SpecStale, Option: the InstanceBuffers the frame before left;
                      \*   in SpecQueues, Option: the phases of the frame before at its end
    call_out          \* Option: what that call returned

vars == <<pc, frame, msaa, views, view_order, entities, render_materials, render_meshes,
          instance_buffers, phases, pipelines, pipeline_cache, qpos, qlog, errors, resolved,
          rpos, pass, call_in, call_out>>

None == << >>
Some(x) == <<x>>
IsSome(o) == Len(o) = 1
Unwrap(o) == o[1]

----------------------------------------------------------------------------
(* Bounds of the model                                                      *)

\* longest instance snapshot
MaxLen == 5
\* size_of::<D>() of the instance record type D, in bytes
RecordSize == 2
\* number of frames of SpecFrames
MaxFrames == 2

Entities == {1, 2, 3}
Views == {1, 2}

----------------------------------------------------------------------------
(* Instance records (D: InstanceData, a Pod type) and snapshots             *)

\* a record of type D is RecordSize bytes; RecordOf(k) is the k-th sample record
RecordOf(k) == [i \in 1..RecordSize |-> (16 * k + i) % 256]

Records == {RecordOf(k) : k \in 1..3}

\* InstanceDataVec<D> values: the snapshot of length n starting at record s
SnapshotOf(n, s) == [i \in 1..n |-> RecordOf(((s + i) % 3) + 1)]

RECURSIVE Flatten(_)
\* bytemuck::cast_slice: the records' bytes, record after record
Flatten(recs) ==
    IF recs = << >> THEN << >> ELSE Head(recs) \o Flatten(Tail(recs))

----------------------------------------------------------------------------
(* Assets: the prepared materials and GPU meshes the systems look up        *)

Opaque == [tag |-> "Opaque", threshold |-> 0]
Mask(t) == [tag |-> "Mask", threshold |-> t]
Blend == [tag |-> "Blend", threshold |-> 0]

MaterialIds == {"matO", "matM", "matM2", "matB", "matX"}

\* PreparedMaterial of a handle: properties.alpha_mode, properties.depth_bias, key
Material(h) ==
    CASE h = "matO"  -> [alpha_mode |-> Opaque,  depth_bias |-> 0, key |-> "F1"]
      [] h = "matM"  -> [alpha_mode |-> Mask(1), depth_bias |-> 2, key |-> "F1"]
      [] h = "matM2" -> [alpha_mode |-> Mask(3), depth_bias |-> 0, key |-> "F1"]
      [] h = "matB"  -> [alpha_mode |-> Blend,   depth_bias |-> 1, key |-> "F1"]
      [] h = "matX"  -> [alpha_mode |-> Opaque,  depth_bias |-> 0, key |-> "F2"]

MeshIds == {"meshI", "meshN"}

\* a wgpu Buffer: what it was created with
GpuBuffer(label, contents, usage) ==
    [label |-> label, contents |-> contents, usage |-> usage]

\* GpuMesh of a handle: vertex_buffer, buffer_info, primitive_topology, layout
GpuMesh(h) ==
    CASE h = "meshI" ->
            [vertex_buffer |-> GpuBuffer("meshI.vertex", << >>, {"VERTEX"}),
             buffer_info |-> [indexed |-> TRUE,
                              buffer |-> GpuBuffer("meshI.index", << >>, {"INDEX"}),
                              index_format |-> "Uint32", count |-> 36],
             primitive_topology |-> "TriangleList", layout |-> "L1"]
      [] h = "meshN" ->
            [vertex_buffer |-> GpuBuffer("meshN.vertex", << >>, {"VERTEX"}),
             buffer_info |-> [indexed |-> FALSE,
                              buffer |-> GpuBuffer("", << >>, {}),
                              index_format |-> "", count |-> 3],
             primitive_topology |-> "LineList", layout |-> "L2"]

\* MeshUniform.transform of an entity, reduced to its translation along the view axis
Transform(e) == 10 * e

----------------------------------------------------------------------------
(* Pipeline keys.  A MeshPipelineKey is a bit set; it is modelled as the    *)
(* set of the names of its bits, `|` being set union.                       *)

\* the multisample-count bits: one value per sample count
from_msaa_samples(samples) ==
    CASE samples = 1 -> {"MSAA_1"}
      [] samples = 2 -> {"MSAA_2"}
      [] samples = 4 -> {"MSAA_4"}
      [] samples = 8 -> {"MSAA_8"}

from_hdr(hdr) == IF hdr THEN {"HDR"} ELSE {}

from_primitive_topology(t) == {"TOPOLOGY_" \o t}

Disabled == [enabled |-> FALSE, deband_dither |-> FALSE]
Enabled(dither) == [enabled |-> TRUE, deband_dither |-> dither]

ViewKeyTonemapOnHdr(samples, hdr, tonemapping) ==
    LET base == from_msaa_samples(samples) \cup from_hdr(hdr)
    IN  IF IsSome(tonemapping) /\ Unwrap(tonemapping).enabled
        THEN base \cup {"TONEMAP_IN_SHADER"}
                  \cup (IF Unwrap(tonemapping).deband_dither THEN {"DEBAND_DITHER"} ELSE {})
        ELSE base

\* view_key of a view (lib.rs 183-194); tonemapping is an Option<Tonemapping>
ViewKey(samples, hdr, tonemapping) ==
    LET base == from_msaa_samples(samples) \cup from_hdr(hdr)
    IN  IF IsSome(tonemapping) /\ Unwrap(tonemapping).enabled /\ ~hdr
        THEN base \cup {"TONEMAP_IN_SHADER"}
                  \cup (IF Unwrap(tonemapping).deband_dither THEN {"DEBAND_DITHER"} ELSE {})
        ELSE base

MeshKeyNoTransparentBit(topology, view_key, alpha_mode) ==
    from_primitive_topology(topology) \cup view_key

MeshKeyMaskTransparent(topology, view_key, alpha_mode) ==
    from_primitive_topology(topology) \cup view_key
        \cup (IF alpha_mode.tag # "Opaque" THEN {"TRANSPARENT_MAIN_PASS"} ELSE {})

\* mesh_key of an entity in a view (lib.rs 215-220)
MeshKey(topology, view_key, alpha_mode) ==
    from_primitive_topology(topology) \cup view_key
        \cup (IF alpha_mode.tag = "Blend" THEN {"TRANSPARENT_MAIN_PASS"} ELSE {})

\* MaterialPipelineKey { mesh_key, bind_group_data } (lib.rs 225-228)
MaterialPipelineKey(mesh_key, bind_group_data) ==
    [mesh_key |-> mesh_key, bind_group_data |-> bind_group_data]

----------------------------------------------------------------------------
(* Pipeline specialization                                                  *)

Ok(x) == [ok |-> TRUE, val |-> x]
Err(x) == [ok |-> FALSE, val |-> x]

\* D::buffer_label()
BufferLabel == "InstanceRecord"

\* D::buffer_layout(), the instance vertex-buffer layout
InstanceBufferLayout == [step_mode |-> "Instance", layout |-> BufferLabel]

\* MaterialPipeline<M>::specialize, the base material pipeline: the descriptor
\* of the key, with the mesh's own vertex buffer as its only vertex buffer, or
\* an error for a vertex layout the material does not support
MaterialSpecialize(key, layout) ==
    IF key.bind_group_data = "F2" /\ layout = "L2"
    THEN Err("MissingVertexAttribute")
    ELSE Ok([key |-> key,
             buffers |-> <<[step_mode |-> "Vertex", layout |-> layout]>>])

InstanceMaterialPipeline_specialize_NoPush(key, layout) ==
    MaterialSpecialize(key, layout)

\* InstanceMaterialPipeline::specialize (lib.rs 291-299)
InstanceMaterialPipeline_specialize(key, layout) ==
    LET base == MaterialSpecialize(key, layout)
    IN  IF ~base.ok
        THEN base
        ELSE Ok([base.val EXCEPT !.buffers = Append(@, InstanceBufferLayout)])

\* SpecializedMeshPipelines::specialize on the memo table `memo` and the
\* pipeline cache `cache`: the id retained for (layout, key) when there is
\* one; otherwise the descriptor is specialized and, when that succeeds,
\* queued in the cache and retained under (layout, key)
PipelinesSpecialize(memo, cache, key, layout) ==
    LET hit == {p \in memo : p.layout = layout /\ p.key = key}
        made == InstanceMaterialPipeline_specialize(key, layout)
        id == Len(cache) + 1
    IN  IF hit # {}
        THEN [result |-> Ok((CHOOSE p \in hit : TRUE).id), memo |-> memo, cache |-> cache]
        ELSE IF ~made.ok
        THEN [result |-> made, memo |-> memo, cache |-> cache]
        ELSE [result |-> Ok(id),
              memo |-> memo \cup {[layout |-> layout, key |-> key, id |-> id]},
              cache |-> Append(cache, made.val)]

----------------------------------------------------------------------------
(* Prepare: prepare_instance_buffers (lib.rs 83-99)                         *)

\* Machine integers wider than the model checker's are kept as 16-bit limbs,
\* most significant first: a usize (64 bits) has four, a u32 has two.
Limb == 65536
Usize(n) == <<0, 0, n \div Limb, n % Limb>>
U32(n) == <<n \div Limb, n % Limb>>

InstanceBufferByteLength(data) ==
    [buffer |-> GpuBuffer(BufferLabel, Flatten(data), {"VERTEX", "COPY_DST"}),
     length |-> Usize(Len(Flatten(data)))]

InstanceBufferAtLeastOne(data) ==
    [buffer |-> GpuBuffer(BufferLabel, Flatten(data), {"VERTEX", "COPY_DST"}),
     length |-> Usize(IF Len(data) = 0 THEN 1 ELSE Len(data))]

\* the InstanceBuffer built from one InstanceDataVec (lib.rs 89-97)
InstanceBufferOf(data) ==
    [buffer |-> GpuBuffer(BufferLabel, Flatten(data), {"VERTEX", "COPY_DST"}),
     length |-> Usize(Len(data))]

prepare_instance_buffers_KeepExisting(ents, bufs) ==
    [e \in DOMAIN ents |->
        IF IsSome(ents[e].data) /\ ~IsSome(bufs[e])
        THEN Some([buffer |-> GpuBuffer(BufferLabel, Flatten(Unwrap(ents[e].data)),
                                        {"VERTEX", "COPY_DST"}),
                   length |-> Usize(Len(Unwrap(ents[e].data)))])
        ELSE bufs[e]]

\* the InstanceBuffer components after the system's commands are applied:
\* inserted (replacing the old one) on every entity of the query
prepare_instance_buffers(ents, bufs) ==
    [e \in DOMAIN ents |->
        IF IsSome(ents[e].data)
        THEN Some(InstanceBufferOf(Unwrap(ents[e].data)))
        ELSE bufs[e]]

----------------------------------------------------------------------------
(* Queue: queue_instance_material_meshes (lib.rs 149-268)                   *)

RECURSIVE VisibleOf(_, _)
\* the (view, entity) pairs the two nested loops visit, in order (lib.rs 171-197)
VisibleOf(vs, order) ==
    IF order = << >> THEN << >>
    ELSE [i \in 1..Len(vs[Head(order)].visible) |->
              [view |-> Head(order), entity |-> vs[Head(order)].visible[i]]]
         \o VisibleOf(vs, Tail(order))

QueueList == VisibleOf(views, view_order)

\* instance_material_meshes.get(entity) is Ok (lib.rs 159, 202)
Joins(ent) == IsSome(ent.material) /\ IsSome(ent.mesh) /\ IsSome(ent.data)

\* f32 values.  The model's distances and biases are whole numbers (of any
\* fixed power-of-two unit); an f32 has 24 significant bits, so a whole number
\* is an f32 when it is a multiple of the unit in the last place of its binade.
F32Bits == 24

Abs(x) == IF x < 0 THEN 0 - x ELSE x

\* number of binary digits of m >= 0
BitLen(m) == CHOOSE k \in 0..30 : m < 2^k /\ (k = 0 \/ m >= 2^(k - 1))

\* the unit in the last place of the binade of x
Ulp(x) == IF Abs(x) < 2^F32Bits THEN 1 ELSE 2^(BitLen(Abs(x)) - F32Bits)

\* the f32 nearest to the real x, ties to the even significand
RoundF32(x) ==
    LET u == Ulp(x)
        q == Abs(x) \div u
        r == Abs(x) % u
        n == (IF 2 * r > u \/ (2 * r = u /\ q % 2 = 1) THEN q + 1 ELSE q) * u
    IN  IF x < 0 THEN 0 - n ELSE n

\* a + b on f32 (lib.rs 239)
F32Add(a, b) == RoundF32(a + b)

\* rangefinder.distance(&mesh_uniform.transform) (lib.rs 195, 239): an f32
RangefinderDistance(v, transform) == RoundF32(transform - v)

SortDistanceMinusBias(distance, depth_bias) == F32Add(distance, 0 - depth_bias)

\* rangefinder.distance(..) + material.properties.depth_bias (lib.rs 239)
SortDistance(distance, depth_bias) == F32Add(distance, depth_bias)

\* what ends the handling of an entity: the loop goes on, or the system returns
OnJoinMiss == "return"
OnMissingMaterial == "return"
OnMissingMesh == "return"
OnSpecializeErrorReturn == "return"
OnSpecializeError == "continue"

PhaseOfMaskAsOpaque(alpha_mode) ==
    IF alpha_mode.tag = "Blend" THEN "transparent" ELSE "opaque"

\* the phase an alpha mode is dispatched to (lib.rs 240-265)
PhaseOf(alpha_mode) ==
    CASE alpha_mode.tag = "Opaque" -> "opaque"
      [] alpha_mode.tag = "Mask"   -> "alpha_mask"
      [] alpha_mode.tag = "Blend"  -> "transparent"

\* DrawFunctions<P>.id::<DrawInstancedMaterial<M>>() (lib.rs 179-181)
DrawFunctionOf(phase) == "DrawInstancedMaterial@" \o phase

\* one iteration of the inner loop, for entity e of view v (lib.rs 197-265):
\* what it did, how it ended, the item it added and the pipeline tables after it
QueueEntity(v, e, memo, cache) ==
    LET ent == entities[e]
        skip(what, flow) ==
            [outcome |-> what, flow |-> flow, add |-> FALSE, phase |-> "",
             item |-> << >>, err |-> << >>, call |-> << >>,
             memo |-> memo, cache |-> cache]
    IN  IF ~Joins(ent) THEN skip("join_miss", OnJoinMiss)
        ELSE IF Unwrap(ent.material) \notin render_materials
        THEN skip("missing_material", OnMissingMaterial)
        ELSE IF Unwrap(ent.mesh) \notin render_meshes
        THEN skip("missing_mesh", OnMissingMesh)
        ELSE
        LET material == Material(Unwrap(ent.material))
            mesh == GpuMesh(Unwrap(ent.mesh))
            view_key == ViewKey(msaa, views[v].hdr, views[v].tonemapping)
            alpha_mode == material.alpha_mode
            mesh_key == MeshKey(mesh.primitive_topology, view_key, alpha_mode)
            got == PipelinesSpecialize(memo, cache,
                       MaterialPipelineKey(mesh_key, material.key), mesh.layout)
            distance == SortDistance(RangefinderDistance(v, ent.transform),
                                     material.depth_bias)
        IN  IF ~got.result.ok
            THEN [skip("specialize_error", OnSpecializeError)
                     EXCEPT !.err = <<got.result.val>>]
            ELSE [outcome |-> "queued", flow |-> "continue", add |-> TRUE,
                  phase |-> PhaseOf(alpha_mode),
                  item |-> <<[entity |-> e,
                              draw_function |-> DrawFunctionOf(PhaseOf(alpha_mode)),
                              pipeline |-> got.result.val,
                              distance |-> distance]>>,
                  err |-> << >>,
                  call |-> <<[samples |-> msaa, hdr |-> views[v].hdr,
                              tonemapping |-> views[v].tonemapping,
                              topology |-> mesh.primitive_topology,
                              layout |-> mesh.layout, fragment |-> material.key,
                              alpha_mode |-> alpha_mode, frame |-> frame,
                              id |-> got.result.val]>>,
                  memo |-> got.memo, cache |-> got.cache]

PipelinesAfterByValue(before, r) == before

\* the SpecializedMeshPipelines resource after the call: `pipelines` is a
\* ResMut, specialize works on the resource itself (lib.rs 154, 222)
PipelinesAfter(before, r) == r.memo

\* one iteration of the inner loop of the Queue system
QueueStep ==
    /\ pc = "queue"
    /\ qpos <= Len(QueueList)
    /\ LET v == QueueList[qpos].view
           e == QueueList[qpos].entity
           r == QueueEntity(v, e, pipelines, pipeline_cache)
       IN  /\ phases' = IF r.add
                        THEN [phases EXCEPT ![v][r.phase] = @ \o r.item]
                        ELSE phases
           /\ pipelines' = PipelinesAfter(pipelines, r)
           /\ pipeline_cache' = r.cache
           /\ errors' = errors \o [i \in 1..Len(r.err) |->
                                      [view |-> v, entity |-> e, err |-> r.err[i]]]
           /\ resolved' = resolved \cup {r.call[i] : i \in 1..Len(r.call)}
           /\ qlog' = Append(qlog, [view |-> v, entity |-> e, pos |-> qpos,
                                    outcome |-> r.outcome])
           /\ IF r.flow = "return"
              THEN pc' = "render" /\ qpos' = qpos
              ELSE pc' = pc /\ qpos' = qpos + 1
    /\ UNCHANGED <<frame, msaa, views, view_order, entities, render_materials,
                   render_meshes, instance_buffers, rpos, pass, call_in, call_out>>

\* both loops are exhausted: the Queue system returns at its end
QueueEnd ==
    /\ pc = "queue"
    /\ qpos > Len(QueueList)
    /\ pc' = "render"
    /\ UNCHANGED <<frame, msaa, views, view_order, entities, render_materials,
                   render_meshes, instance_buffers, phases, pipelines, pipeline_cache,
                   qpos, qlog, errors, resolved, rpos, pass, call_in, call_out>>

----------------------------------------------------------------------------
(* Render: DrawMeshInstanced::render (lib.rs 117-146)                       *)

\* `as u32`: the low 32 bits of a usize
AsU32(x) == <<x[3], x[4]>>

InstanceRangeSingle(length) == <<U32(0), U32(1)>>

InstanceRangeAsU16(length) == <<U32(0), <<0, length[4]>>>>

\* 0..instance_buffer.length as u32 (lib.rs 139, 142)
InstanceRange(length) == <<U32(0), AsU32(length)>>

DrawMeshInstanced_render_BindFirst(gpu_mesh, instance_buffer) ==
    LET bind == << <<"set_vertex_buffer", 1, instance_buffer.buffer>> >>
    IN  IF ~IsSome(gpu_mesh)
        THEN [result |-> "Failure", cmds |-> bind]
        ELSE LET mesh == Unwrap(gpu_mesh)
                 info == mesh.buffer_info
             IN  [result |-> "Success",
                  cmds |->
                     bind \o << <<"set_vertex_buffer", 0, mesh.vertex_buffer>> >>
                     \o (IF info.indexed
                         THEN << <<"set_index_buffer", info.buffer, 0, info.index_format>>,
                                 <<"draw_indexed", <<0, info.count>>, 0,
                                   <<U32(0), AsU32(instance_buffer.length)>> >> >>
                         ELSE << <<"draw", <<0, info.count>>,
                                   <<U32(0), AsU32(instance_buffer.length)>> >> >>)]

\* the commands recorded on the pass and the result, for the GPU mesh found
\* under the item's mesh handle (an Option) and the item's InstanceBuffer
DrawMeshInstanced_render(gpu_mesh, instance_buffer) ==
    IF ~IsSome(gpu_mesh)
    THEN [result |-> "Failure", cmds |-> << >>]
    ELSE LET mesh == Unwrap(gpu_mesh)
             info == mesh.buffer_info
         IN  [result |-> "Success",
              cmds |->
                 << <<"set_vertex_buffer", 0, mesh.vertex_buffer>>,
                    <<"set_vertex_buffer", 1, instance_buffer.buffer>> >>
                 \o (IF info.indexed
                     THEN << <<"set_index_buffer", info.buffer, 0, info.index_format>>,
                             <<"draw_indexed", <<0, info.count>>, 0,
                               InstanceRange(instance_buffer.length)>> >>
                     ELSE << <<"draw", <<0, info.count>>,
                               InstanceRange(instance_buffer.length)>> >>)]

\* meshes.get(mesh_handle) (lib.rs 124)
RenderMeshesGet(h) == IF h \in render_meshes THEN Some(GpuMesh(h)) ELSE None

\* the items of one phase of one view, in queue order
PhaseItems(v, phase) ==
    [k \in 1..Len(phases[v][phase]) |->
        [view |-> v, phase |-> phase, item |-> phases[v][phase][k]]]

RECURSIVE ItemsOf(_)
\* the phase items the Render stage executes, view after view, and for each
\* view the opaque, the alpha-mask and the transparent phase in that order
ItemsOf(order) ==
    IF order = << >> THEN << >>
    ELSE PhaseItems(Head(order), "opaque") \o PhaseItems(Head(order), "alpha_mask")
         \o PhaseItems(Head(order), "transparent") \o ItemsOf(Tail(order))

RenderList == ItemsOf(view_order)

\* the draw function of one phase item runs DrawMeshInstanced::render on the
\* item's entity (Handle<Mesh>, InstanceBuffer)
RenderStep ==
    /\ pc = "render"
    /\ rpos <= Len(RenderList)
    /\ LET it == RenderList[rpos]
           e == it.item.entity
           r == IF IsSome(entities[e].mesh) /\ IsSome(instance_buffers[e])
                THEN DrawMeshInstanced_render(RenderMeshesGet(Unwrap(entities[e].mesh)),
                                             Unwrap(instance_buffers[e]))
                ELSE [result |-> "NoComponents", cmds |-> << >>]
       IN  pass' = Append(pass, [view |-> it.view, phase |-> it.phase, entity |-> e,
                                 result |-> r.result, cmds |-> r.cmds])
    /\ rpos' = rpos + 1
    /\ UNCHANGED <<pc, frame, msaa, views, view_order, entities, render_materials,
                   render_meshes, instance_buffers, phases, pipelines, pipeline_cache,
                   qpos, qlog, errors, resolved, call_in, call_out>>

\* every phase item of the frame has been executed
RenderEnd ==
    /\ pc = "render"
    /\ rpos > Len(RenderList)
    /\ pc' = "cleanup"
    /\ UNCHANGED <<frame, msaa, views, view_order, entities, render_materials,
                   render_meshes, instance_buffers, phases, pipelines, pipeline_cache,
                   qpos, qlog, errors, resolved, rpos, pass, call_in, call_out>>

----------------------------------------------------------------------------
(* The frame                                                                *)

NoPhases == [opaque |-> << >>, alpha_mask |-> << >>, transparent |-> << >>]

NoEntity == [material |-> None, mesh |-> None, data |-> None, transform |-> 0]

Kind(material, mesh, data) == [material |-> material, mesh |-> mesh, data |-> data]

\* what an extracted entity may carry
EntityKinds ==
    { Kind(Some("matO"),  Some("meshI"), Some(SnapshotOf(MaxLen, 0))),
      Kind(Some("matM"),  Some("meshN"), Some(SnapshotOf(2, 1))),
      Kind(Some("matB"),  Some("meshI"), Some(SnapshotOf(0, 0))),
      Kind(Some("matM2"), Some("meshI"), Some(SnapshotOf(1, 0))),
      Kind(Some("matX"),  Some("meshN"), Some(SnapshotOf(1, 2))),
      Kind(Some("matX"),  Some("meshI"), Some(SnapshotOf(3, 1))),
      Kind(None,          Some("meshI"), None),
      Kind(Some("matO"),  None,          Some(SnapshotOf(2, 0))),
      Kind(Some("matB"),  Some("meshN"), None) }

NarrowKinds ==
    { Kind(Some("matO"), Some("meshI"), Some(SnapshotOf(MaxLen, 0))),
      Kind(Some("matB"), Some("meshI"), Some(SnapshotOf(1, 1))),
      Kind(Some("matX"), Some("meshN"), Some(SnapshotOf(0, 0))),
      Kind(Some("matM"), Some("meshI"), None) }

\* which assets are GPU-resident
Residencies ==
    { [materials |-> MaterialIds, meshes |-> MeshIds],
      [materials |-> MaterialIds \ {"matM"}, meshes |-> MeshIds],
      [materials |-> MaterialIds, meshes |-> MeshIds \ {"meshN"}] }

ViewFlags ==
    { [hdr |-> FALSE, tonemapping |-> Some(Enabled(TRUE))],
      [hdr |-> TRUE,  tonemapping |-> None] }

View(flags, visible) ==
    [hdr |-> flags.hdr, tonemapping |-> flags.tonemapping, visible |-> visible]

Init ==
    /\ pc = "extract"
    /\ frame = 1
    /\ msaa = 4
    /\ views = [v \in Views |-> View([hdr |-> FALSE, tonemapping |-> None], << >>)]
    /\ view_order = <<1, 2>>
    /\ entities = [e \in Entities |-> NoEntity]
    /\ render_materials = {}
    /\ render_meshes = {}
    /\ instance_buffers = [e \in Entities |-> None]
    /\ phases = [v \in Views |-> NoPhases]
    /\ pipelines = {}
    /\ pipeline_cache = << >>
    /\ qpos = 1
    /\ qlog = << >>
    /\ errors = << >>
    /\ resolved = {}
    /\ rpos = 1
    /\ pass = << >>
    /\ call_in = None
    /\ call_out = None

\* the components of an entity of some kind whose MeshUniform.transform is given
Placed(kind, transform) ==
    [material |-> kind.material, mesh |-> kind.mesh, data |-> kind.data,
     transform |-> transform]

\* the Extract stage: the render world of this frame
ExtractAt(ents, transforms, res, f1, f2, vis2, order) ==
    /\ pc = "extract"
    /\ pc' = "prepare"
    /\ entities' = [e \in Entities |-> Placed(ents[e], transforms[e])]
    /\ render_materials' = res.materials
    /\ render_meshes' = res.meshes
    /\ views' = [v \in Views |-> IF v = 1 THEN View(f1, <<1, 2, 3>>) ELSE View(f2, vis2)]
    /\ view_order' = order
    /\ UNCHANGED <<frame, msaa, instance_buffers, phases, pipelines, pipeline_cache,
                   qpos, qlog, errors, resolved, rpos, pass, call_in, call_out>>

Extract(ents, res, f1, f2, vis2, order) ==
    ExtractAt(ents, [e \in Entities |-> Transform(e)], res, f1, f2, vis2, order)

ExtractWide ==
    /\ pc = "extract"
    /\ \E ents \in [Entities -> EntityKinds], res \in Residencies,
          f1 \in ViewFlags, f2 \in ViewFlags,
          vis2 \in {<<3, 1>>, <<2>>, << >>}, order \in {<<1, 2>>, <<2, 1>>} :
            Extract(ents, res, f1, f2, vis2, order)

\* the Prepare stage: prepare_instance_buffers and the commands it queued
Prepare ==
    /\ pc = "prepare"
    /\ pc' = "queue"
    /\ instance_buffers' = prepare_instance_buffers(entities, instance_buffers)
    /\ UNCHANGED <<frame, msaa, views, view_order, entities, render_materials,
                   render_meshes, phases, pipelines, pipeline_cache, qpos, qlog,
                   errors, resolved, rpos, pass, call_in, call_out>>

Next == ExtractWide \/ Prepare \/ QueueStep \/ QueueEnd \/ RenderStep \/ RenderEnd

Spec == Init /\ [][Next]_vars

----------------------------------------------------------------------------
(* Several frames.  The render world is rebuilt every frame: its entities,  *)
(* their components and the views' phases do not outlive the frame; the     *)
(* resources SpecializedMeshPipelines and PipelineCache do.                 *)

EndFrame ==
    /\ pc = "cleanup"
    /\ frame < MaxFrames
    /\ frame' = frame + 1
    /\ pc' = "extract"
    /\ entities' = [e \in Entities |-> NoEntity]
    /\ instance_buffers' = [e \in Entities |-> None]
    /\ phases' = [v \in Views |-> NoPhases]
    /\ qpos' = 1
    /\ qlog' = << >>
    /\ errors' = << >>
    /\ rpos' = 1
    /\ pass' = << >>
    /\ UNCHANGED <<msaa, views, view_order, render_materials, render_meshes,
                   pipelines, pipeline_cache, resolved, call_in, call_out>>

ExtractNarrow ==
    /\ pc = "extract"
    /\ \E ents \in [Entities -> NarrowKinds],
          res \in {r \in Residencies : r.meshes = MeshIds},
          f \in ViewFlags, vis2 \in {<<3, 1>>, <<2>>} :
            Extract(ents, res, f, f, vis2, <<1, 2>>)

NextFrames ==
    ExtractNarrow \/ Prepare \/ QueueStep \/ QueueEnd \/ RenderStep \/ RenderEnd \/ EndFrame

SpecFrames == Init /\ [][NextFrames]_vars

----------------------------------------------------------------------------
(* Several frames in which the snapshots change.  Besides the frame end     *)
(* that rebuilds the render world, a frame may end with the entities        *)
(* keeping the InstanceBuffer component they were given, so that Prepare    *)
(* of the next frame finds it in place.                                     *)

StaleKinds ==
    { Kind(Some("matO"), Some("meshI"), Some(SnapshotOf(MaxLen, 0))),
      Kind(Some("matO"), Some("meshI"), Some(SnapshotOf(1, 1))),
      Kind(Some("matB"), Some("meshI"), Some(SnapshotOf(1, 0))),
      Kind(Some("matO"), Some("meshI"), None) }

ExtractStale ==
    /\ pc = "extract"
    /\ \E ents \in [Entities -> StaleKinds] :
            Extract(ents, [materials |-> MaterialIds, meshes |-> MeshIds],
                    [hdr |-> FALSE, tonemapping |-> None],
                    [hdr |-> FALSE, tonemapping |-> None], <<3, 1>>, <<1, 2>>)

EndFrameKeep ==
    /\ pc = "cleanup"
    /\ frame < MaxFrames
    /\ frame' = frame + 1
    /\ pc' = "extract"
    /\ entities' = [e \in Entities |-> NoEntity]
    /\ call_in' = Some(instance_buffers)
    /\ phases' = [v \in Views |-> NoPhases]
    /\ qpos' = 1
    /\ qlog' = << >>
    /\ errors' = << >>
    /\ rpos' = 1
    /\ pass' = << >>
    /\ UNCHANGED <<msaa, views, view_order, render_materials, render_meshes,
                   instance_buffers, pipelines, pipeline_cache, resolved, call_out>>

NextStale ==
    ExtractStale \/ Prepare \/ QueueStep \/ QueueEnd \/ RenderStep \/ RenderEnd
        \/ EndFrame \/ EndFrameKeep

SpecStale == Init /\ [][NextStale]_vars

----------------------------------------------------------------------------
(* Several frames in which visibility and materials change, the material    *)
(* matM not being GPU-resident; the phases of each frame are remembered at  *)
(* its end.                                                                 *)

QueuesKinds ==
    { Kind(Some("matO"), Some("meshI"), Some(SnapshotOf(1, 0))),
      Kind(Some("matB"), Some("meshI"), Some(SnapshotOf(2, 0))),
      Kind(Some("matM"), Some("meshI"), Some(SnapshotOf(1, 1))) }

ExtractQueues ==
    /\ pc = "extract"
    /\ \E ents \in [Entities -> QueuesKinds], vis2 \in {<<3, 1>>, <<2>>} :
            Extract(ents, [materials |-> MaterialIds \ {"matM"}, meshes |-> MeshIds],
                    [hdr |-> FALSE, tonemapping |-> None],
                    [hdr |-> FALSE, tonemapping |-> None], vis2, <<1, 2>>)

EndFrameSeenKeepingPhases ==
    /\ pc = "cleanup"
    /\ frame < MaxFrames
    /\ frame' = frame + 1
    /\ pc' = "extract"
    /\ entities' = [e \in Entities |-> NoEntity]
    /\ instance_buffers' = [e \in Entities |-> None]
    /\ call_in' = Some(phases)
    /\ qpos' = 1
    /\ qlog' = << >>
    /\ errors' = << >>
    /\ rpos' = 1
    /\ pass' = << >>
    /\ UNCHANGED <<msaa, views, view_order, render_materials, render_meshes, phases,
                   pipelines, pipeline_cache, resolved, call_out>>

\* the frame end, as EndFrame, the phases the frame leaves being remembered
EndFrameSeen ==
    /\ pc = "cleanup"
    /\ frame < MaxFrames
    /\ frame' = frame + 1
    /\ pc' = "extract"
    /\ entities' = [e \in Entities |-> NoEntity]
    /\ instance_buffers' = [e \in Entities |-> None]
    /\ call_in' = Some(phases)
    /\ phases' = [v \in Views |-> NoPhases]
    /\ qpos' = 1
    /\ qlog' = << >>
    /\ errors' = << >>
    /\ rpos' = 1
    /\ pass' = << >>
    /\ UNCHANGED <<msaa, views, view_order, render_materials, render_meshes,
                   pipelines, pipeline_cache, resolved, call_out>>

NextQueues ==
    ExtractQueues \/ Prepare \/ QueueStep \/ QueueEnd \/ RenderStep \/ RenderEnd
        \/ EndFrameSeen

SpecQueues == Init /\ [][NextQueues]_vars

----------------------------------------------------------------------------
(* One frame over every setting of the views: any sample count, HDR or     *)
(* not, and any Tonemapping component or none.                              *)

SampleCounts == {1, 2, 4, 8}

AllViewFlags ==
    {[hdr |-> h, tonemapping |-> t] :
        h \in BOOLEAN,
        t \in {None, Some(Disabled), Some(Enabled(FALSE)), Some(Enabled(TRUE))}}

ViewsKinds ==
    { Kind(Some("matO"), Some("meshI"), Some(SnapshotOf(1, 0))),
      Kind(Some("matB"), Some("meshN"), Some(SnapshotOf(2, 1))) }

InitViews ==
    /\ pc = "extract"
    /\ frame = 1
    /\ msaa \in SampleCounts
    /\ views = [v \in Views |-> View([hdr |-> FALSE, tonemapping |-> None], << >>)]
    /\ view_order = <<1, 2>>
    /\ entities = [e \in Entities |-> NoEntity]
    /\ render_materials = {}
    /\ render_meshes = {}
    /\ instance_buffers = [e \in Entities |-> None]
    /\ phases = [v \in Views |-> NoPhases]
    /\ pipelines = {}
    /\ pipeline_cache = << >>
    /\ qpos = 1
    /\ qlog = << >>
    /\ errors = << >>
    /\ resolved = {}
    /\ rpos = 1
    /\ pass = << >>
    /\ call_in = None
    /\ call_out = None

ExtractViews ==
    /\ pc = "extract"
    /\ \E ents \in [Entities -> ViewsKinds], f1 \in AllViewFlags, f2 \in AllViewFlags :
            Extract(ents, [materials |-> MaterialIds, meshes |-> MeshIds],
                    f1, f2, <<2>>, <<1, 2>>)

NextViews == ExtractViews \/ Prepare \/ QueueStep \/ QueueEnd \/ RenderStep \/ RenderEnd

SpecViews == InitViews /\ [][NextViews]_vars

----------------------------------------------------------------------------
(* One frame over entities near and far: transforms around 2^24 and 2^25,  *)
(* where not every whole number is an f32, on both sides of the view.       *)

SortTransforms == {6, 2^F32Bits + 1, 2^F32Bits + 4, 2^(F32Bits + 1) + 6, 1 - 2^F32Bits}

SortKinds ==
    { Kind(Some("matO"),  Some("meshI"), Some(SnapshotOf(1, 0))),
      Kind(Some("matM"),  Some("meshI"), Some(SnapshotOf(1, 0))),
      Kind(Some("matM2"), Some("meshI"), Some(SnapshotOf(1, 0))),
      Kind(Some("matB"),  Some("meshI"), Some(SnapshotOf(1, 0))) }

ExtractSort ==
    /\ pc = "extract"
    /\ \E ents \in [Entities -> SortKinds], transforms \in [Entities -> SortTransforms] :
            ExtractAt(ents, transforms, [materials |-> MaterialIds, meshes |-> MeshIds],
                      [hdr |-> FALSE, tonemapping |-> None],
                      [hdr |-> FALSE, tonemapping |-> None], <<3, 1>>, <<1, 2>>)

NextSort == ExtractSort \/ Prepare \/ QueueStep \/ QueueEnd \/ RenderStep \/ RenderEnd

SpecSort == Init /\ [][NextSort]_vars

----------------------------------------------------------------------------
(* Properties                                                               *)

PhaseNames == {"opaque", "alpha_mask", "transparent"}

\* the Queue system of this frame has returned
QueueDone == pc \in {"render", "cleanup"}

\* the phase items of all queues of all views
Queued ==
    UNION {UNION {{[view |-> v, phase |-> p, item |-> phases[v][p][k]] :
                      k \in 1..Len(phases[v][p])} : p \in PhaseNames} : v \in Views}

\* number of phase items of entity e in a queue
CountIn(queue, e) == Cardinality({k \in 1..Len(queue) : queue[k].entity = e})

\* number of phase items of entity e in the three queues of view v
QueuedItems(v, e) ==
    CountIn(phases[v].opaque, e) + CountIn(phases[v].alpha_mask, e)
        + CountIn(phases[v].transparent, e)

\* the Queue system reached entity e of view v and handled it with this outcome
LoggedAs(v, e, outcomes) ==
    \E k \in 1..Len(qlog) :
        qlog[k].view = v /\ qlog[k].entity = e /\ qlog[k].outcome \in outcomes

\* the Queue system reached entity e of view v
Reached(v, e) == \E k \in 1..Len(qlog) : qlog[k].view = v /\ qlog[k].entity = e

\* entity e carries all the join asks for, its material and mesh are
\* GPU-resident and its key in view v specializes
Ready(v, e) ==
    /\ Joins(entities[e])
    /\ Unwrap(entities[e].material) \in render_materials
    /\ Unwrap(entities[e].mesh) \in render_meshes
    /\ LET material == Material(Unwrap(entities[e].material))
           mesh == GpuMesh(Unwrap(entities[e].mesh))
           mesh_key == MeshKey(mesh.primitive_topology,
                               ViewKey(msaa, views[v].hdr, views[v].tonemapping),
                               material.alpha_mode)
       IN  InstanceMaterialPipeline_specialize(MaterialPipelineKey(mesh_key, material.key), mesh.layout).ok

\* the entities visible in view v after position i of its visibility list
Later(v, i) == {views[v].visible[j] : j \in (i + 1)..Len(views[v].visible)}

\* the views the Queue system iterates after view v
LaterViews(v) ==
    {view_order[m] : m \in {n \in 1..Len(view_order) :
                               \E k \in 1..(n - 1) : view_order[k] = v}}

\* the queue of view v the alpha mode of entity e's material selects
QueueFor(e) ==
    LET tag == Material(Unwrap(entities[e].material)).alpha_mode.tag
    IN  IF tag = "Opaque" THEN "opaque"
        ELSE IF tag = "Mask" THEN "alpha_mask" ELSE "transparent"

(* C1: every (view, entity) pair that reached dispatch (join, material and  *)
(* mesh lookup and specialization succeeded) has exactly one phase item,    *)
(* in the queue of that view its alpha mode selects (Opaque: opaque,        *)
(* Mask(t): alpha-mask, Blend: transparent), with that phase's draw         *)
(* function; the other two queues hold nothing for it, and a pair that did  *)
(* not reach dispatch has no item at all.                                   *)
C1_PhaseRouting ==
    \A v \in Views, e \in Entities :
        IF LoggedAs(v, e, {"queued"})
        THEN \A p \in PhaseNames :
                /\ CountIn(phases[v][p], e) = (IF p = QueueFor(e) THEN 1 ELSE 0)
                /\ \A k \in 1..Len(phases[v][p]) :
                      phases[v][p][k].draw_function = "DrawInstancedMaterial@" \o p
        ELSE QueuedItems(v, e) = 0

\* one view holds an Opaque, a Mask(1) and a Blend item, a Mask(3) item is queued too
C1_Witness ==
    \E v \in Views :
        /\ \E e \in Entities : entities[e].material = Some("matO")
                                  /\ CountIn(phases[v].opaque, e) = 1
        /\ \E e \in Entities : entities[e].material = Some("matM")
                                  /\ CountIn(phases[v].alpha_mask, e) = 1
        /\ \E e \in Entities : entities[e].material = Some("matB")
                                  /\ CountIn(phases[v].transparent, e) = 1

(* C2: when render_materials.get or render_meshes.get returned None for a   *)
(* visible entity of a view, every later entity of that view's visibility   *)
(* list that is ready (joined, resident, specializable) has been queued     *)
(* for that view once the Queue system has returned.                        *)
C2_MissingAssetSkipsOnlyThatEntity ==
    QueueDone =>
        \A v \in Views : \A i \in 1..Len(views[v].visible) :
            LoggedAs(v, views[v].visible[i], {"missing_material", "missing_mesh"})
            => \A e \in Later(v, i) : Ready(v, e) => QueuedItems(v, e) = 1

(* C3: when a visible entity of a view does not satisfy the join, no item   *)
(* is produced for it and every later entity of that view's visibility      *)
(* list that is ready has been queued for that view once the Queue system   *)
(* has returned.                                                            *)
C3_JoinMissSkipsOnlyThatEntity ==
    QueueDone =>
        \A v \in Views : \A i \in 1..Len(views[v].visible) :
            LoggedAs(v, views[v].visible[i], {"join_miss"})
            => /\ QueuedItems(v, views[v].visible[i]) = 0
               /\ \A e \in Later(v, i) : Ready(v, e) => QueuedItems(v, e) = 1

(* C4: when pipelines.specialize returned an error for a visible entity of  *)
(* a view, the error is logged, the entity has no item in any queue of the  *)
(* view, and every ready entity later in that view's visibility list and    *)
(* every ready entity of every later view has been queued once the Queue    *)
(* system has returned.                                                     *)
C4_SpecializeErrorSkipsOnlyThatEntity ==
    QueueDone =>
        \A v \in Views : \A i \in 1..Len(views[v].visible) :
            LoggedAs(v, views[v].visible[i], {"specialize_error"})
            => /\ \E k \in 1..Len(errors) :
                     errors[k].view = v /\ errors[k].entity = views[v].visible[i]
               /\ QueuedItems(v, views[v].visible[i]) = 0
               /\ \A e \in Later(v, i) : Ready(v, e) => QueuedItems(v, e) = 1
               /\ \A w \in LaterViews(v) : \A j \in 1..Len(views[w].visible) :
                     Ready(w, views[w].visible[j])
                     => QueuedItems(w, views[w].visible[j]) = 1

(* C15: when the join, render_materials.get or render_meshes.get missed    *)
(* for a visible entity of a view, then, once the Queue system has          *)
(* returned, every other view holds one phase item for each of its visible  *)
(* entities that is ready (joined, resident, specializable), in whichever   *)
(* order the views were iterated.                                           *)
C15_MissAffectsOnlyItsView ==
    QueueDone =>
        \A v \in Views : \A i \in 1..Len(views[v].visible) :
            LoggedAs(v, views[v].visible[i],
                     {"join_miss", "missing_material", "missing_mesh"})
            => \A w \in Views \ {v} : \A j \in 1..Len(views[w].visible) :
                   Ready(w, views[w].visible[j])
                   => QueuedItems(w, views[w].visible[j]) = 1

\* the executions of a phase item of entity e in view v recorded on the pass
PassOf(v, e) == {k \in 1..Len(pass) : pass[k].view = v /\ pass[k].entity = e}

\* the draw calls among recorded commands
DrawCalls(cmds) == {n \in 1..Len(cmds) : cmds[n][1] \in {"draw", "draw_indexed"}}

\* the instance range of a draw call
InstancesOf(cmd) == IF cmd[1] = "draw_indexed" THEN cmd[4] ELSE cmd[3]

\* every visible entity of every view is ready
AllReady ==
    \A v \in Views : \A i \in 1..Len(views[v].visible) : Ready(v, views[v].visible[i])

(* C5: in a frame where every visible entity of every view carries material *)
(* handle, mesh handle and snapshot, its assets are resident and its key    *)
(* specializes, after Prepare, Queue and Render each (view, visible entity) *)
(* pair has exactly one phase item in that view's queues, every phase item  *)
(* was executed once, and each execution recorded exactly one draw call,    *)
(* with instance range 0..len(snapshot of this frame); for an indexed mesh  *)
(* it is an indexed draw over 0..index count.                               *)
C5_EndToEnd ==
    (pc = "cleanup" /\ AllReady) =>
        /\ Len(pass) = Len(RenderList)
        /\ \A v \in Views : \A i \in 1..Len(views[v].visible) :
              LET e == views[v].visible[i]
                  mesh == GpuMesh(Unwrap(entities[e].mesh))
              IN  /\ QueuedItems(v, e) = 1
                  /\ Cardinality(PassOf(v, e)) = 1
                  /\ \A k \in PassOf(v, e) :
                        /\ pass[k].result = "Success"
                        /\ Cardinality(DrawCalls(pass[k].cmds)) = 1
                        /\ \A n \in DrawCalls(pass[k].cmds) :
                              /\ InstancesOf(pass[k].cmds[n])
                                    = <<U32(0), U32(Len(Unwrap(entities[e].data)))>>
                              /\ mesh.buffer_info.indexed
                                    => /\ pass[k].cmds[n][1] = "draw_indexed"
                                       /\ pass[k].cmds[n][2] = <<0, mesh.buffer_info.count>>

\* the frame is over, all was ready, and an entity with the indexed mesh of 36
\* indices and a snapshot of MaxLen records was drawn in two views
C5_Witness ==
    /\ pc = "cleanup"
    /\ AllReady
    /\ \E e \in Entities :
          /\ entities[e].mesh = Some("meshI")
          /\ Len(Unwrap(entities[e].data)) = MaxLen
          /\ \A v \in Views : \E k \in PassOf(v, e) : \E n \in DrawCalls(pass[k].cmds) :
                pass[k].cmds[n] = <<"draw_indexed", <<0, 36>>, 0, <<U32(0), U32(MaxLen)>> >>

\* the stages of the frame for which Prepare has run
Prepared == pc \in {"queue", "render", "cleanup"}

(* C9: an entity whose snapshot is empty gets an InstanceBuffer of record   *)
(* count 0 (and no bytes); every draw call recorded for it in the frame     *)
(* has the instance range 0..0; and the empty snapshot is no error: the     *)
(* entity's buffer is built, a ready entity is queued like any other once   *)
(* the Queue system reaches it, no error is logged for it, and its draw     *)
(* returns Success.                                                         *)
C9_EmptySnapshot ==
    \A e \in Entities :
        (Prepared /\ entities[e].data = Some(<< >>)) =>
            /\ IsSome(instance_buffers[e])
            /\ Unwrap(instance_buffers[e]).length = Usize(0)
            /\ Unwrap(instance_buffers[e]).buffer.contents = << >>
            /\ \A v \in Views :
                  /\ (Ready(v, e) /\ Reached(v, e)) => QueuedItems(v, e) = 1
                  /\ Ready(v, e) => \A k \in 1..Len(errors) :
                        ~(errors[k].view = v /\ errors[k].entity = e)
                  /\ \A k \in PassOf(v, e) :
                        /\ pass[k].result = "Success"
                        /\ \A n \in DrawCalls(pass[k].cmds) :
                              InstancesOf(pass[k].cmds[n]) = <<U32(0), U32(0)>>

\* an entity with an empty snapshot was queued and its item executed: one
\* indexed draw with instance range 0..0
C9_Witness ==
    \E e \in Entities, v \in Views :
        /\ entities[e].data = Some(<< >>)
        /\ \E k \in PassOf(v, e) : \E n \in DrawCalls(pass[k].cmds) :
              InstancesOf(pass[k].cmds[n]) = <<U32(0), U32(0)>>

----------------------------------------------------------------------------
(* prepare_instance_buffers alone, on any snapshots and any InstanceBuffer  *)
(* components already present                                               *)

\* an InstanceBuffer inserted on the entity before the system runs
StaleBuffer ==
    [buffer |-> GpuBuffer("OtherRecord", <<1, 2, 3>>, {"VERTEX", "COPY_DST"}),
     length |-> Usize(1)]

PrepareKinds ==
    {Kind(Some("matO"), Some("meshI"), None)}
    \cup {Kind(Some("matO"), Some("meshI"), Some(SnapshotOf(n, s))) :
             n \in 0..MaxLen, s \in 0..1}

InitPrepare ==
    /\ pc = "prepare"
    /\ frame = 1
    /\ msaa = 4
    /\ views = [v \in Views |-> View([hdr |-> FALSE, tonemapping |-> None], << >>)]
    /\ view_order = <<1, 2>>
    /\ entities \in [Entities -> PrepareKinds]
    /\ render_materials = MaterialIds
    /\ render_meshes = MeshIds
    /\ instance_buffers \in [Entities -> {None, Some(StaleBuffer)}]
    /\ phases = [v \in Views |-> NoPhases]
    /\ pipelines = {}
    /\ pipeline_cache = << >>
    /\ qpos = 1
    /\ qlog = << >>
    /\ errors = << >>
    /\ resolved = {}
    /\ rpos = 1
    /\ pass = << >>
    /\ call_in = Some(instance_buffers)
    /\ call_out = None

SpecPrepare == InitPrepare /\ [][Prepare]_vars

----------------------------------------------------------------------------
(* DrawMeshInstanced::render alone, on any mesh record and InstanceBuffer   *)

\* the Option<&GpuMesh> meshes.get may return
RenderMeshInputs ==
    {None}
    \cup {Some([GpuMesh("meshI") EXCEPT !.buffer_info.count = c,
                                        !.buffer_info.index_format = f]) :
             c \in {0, 1, 36}, f \in {"Uint16", "Uint32"}}
    \cup {Some([GpuMesh("meshN") EXCEPT !.buffer_info.count = c]) : c \in {0, 3, 4}}

\* record counts up to 2^48, among them 2^32 - 1 and 2^32
RenderLengthInputs ==
    {Usize(0), Usize(1), Usize(MaxLen), Usize(65535), <<0, 0, 1, 0>>,
     <<0, 0, 65535, 65535>>, <<0, 1, 0, 0>>, <<0, 1, 0, 5>>, <<1, 0, 0, 0>>}

\* the InstanceBuffer of that record count; the bytes of a buffer, which
\* render does not read, are left out
RenderBufferInputs ==
    {[buffer |-> GpuBuffer(BufferLabel, << >>, {"VERTEX", "COPY_DST"}), length |-> n] :
        n \in RenderLengthInputs}

InitRender ==
    /\ pc = "call"
    /\ frame = 1
    /\ msaa = 4
    /\ views = [v \in Views |-> View([hdr |-> FALSE, tonemapping |-> None], << >>)]
    /\ view_order = <<1, 2>>
    /\ entities = [e \in Entities |-> NoEntity]
    /\ render_materials = MaterialIds
    /\ render_meshes = MeshIds
    /\ instance_buffers = [e \in Entities |-> None]
    /\ phases = [v \in Views |-> NoPhases]
    /\ pipelines = {}
    /\ pipeline_cache = << >>
    /\ qpos = 1
    /\ qlog = << >>
    /\ errors = << >>
    /\ resolved = {}
    /\ rpos = 1
    /\ pass = << >>
    /\ call_in \in {Some([gpu_mesh |-> m, instance_buffer |-> b]) :
                       m \in RenderMeshInputs, b \in RenderBufferInputs}
    /\ call_out = None

RenderCall ==
    /\ pc = "call"
    /\ pc' = "returned"
    /\ call_out' = Some(DrawMeshInstanced_render(Unwrap(call_in).gpu_mesh,
                                                Unwrap(call_in).instance_buffer))
    /\ UNCHANGED <<frame, msaa, views, view_order, entities, render_materials,
                   render_meshes, instance_buffers, phases, pipelines, pipeline_cache,
                   qpos, qlog, errors, resolved, rpos, pass, call_in>>

SpecRender == InitRender /\ [][RenderCall]_vars

----------------------------------------------------------------------------
(* The Render stage alone, on phase items that name the draw function       *)
(* DrawInstancedMaterial for entities whose mesh record may not be in       *)
(* RenderAssets<Mesh> when the item is drawn                                *)

PassKinds ==
    {Placed(Kind(Some("matO"), Some(m), Some(SnapshotOf(2, 0))), 0) : m \in MeshIds}

\* a phase item of entity e
PassItem(e, phase) ==
    [entity |-> e, draw_function |-> DrawFunctionOf(phase), pipeline |-> 1, distance |-> 0]

InitPass ==
    /\ pc = "render"
    /\ frame = 1
    /\ msaa = 4
    /\ views = [v \in Views |-> View([hdr |-> FALSE, tonemapping |-> None], << >>)]
    /\ view_order = <<1, 2>>
    /\ entities \in [Entities -> PassKinds]
    /\ render_materials = MaterialIds
    /\ render_meshes \in SUBSET MeshIds
    /\ instance_buffers = prepare_instance_buffers(entities, [e \in Entities |-> None])
    /\ \E order \in {<<1, 2, 3>>, <<3, 2, 1>>, <<2, 1, 3>>} :
          phases = [v \in Views |->
                       IF v = 1
                       THEN [NoPhases EXCEPT
                                !.opaque = [i \in 1..3 |-> PassItem(order[i], "opaque")]]
                       ELSE [NoPhases EXCEPT
                                !.transparent = <<PassItem(order[3], "transparent")>>]]
    /\ pipelines = {}
    /\ pipeline_cache = << >>
    /\ qpos = 1
    /\ qlog = << >>
    /\ errors = << >>
    /\ resolved = {}
    /\ rpos = 1
    /\ pass = << >>
    /\ call_in = None
    /\ call_out = None

NextPass == RenderStep \/ RenderEnd

SpecPass == InitPass /\ [][NextPass]_vars

----------------------------------------------------------------------------
(* Properties of pipeline resolution (SpecFrames)                           *)

\* the view flags of a resolve call
FlagsOf(c) == ViewKey(c.samples, c.hdr, c.tonemapping)

\* two resolve calls agree on view flags, mesh topology and vertex layout
\* and material key fragment
SameButAlpha(a, b) ==
    /\ FlagsOf(a) = FlagsOf(b)
    /\ a.topology = b.topology
    /\ a.layout = b.layout
    /\ a.fragment = b.fragment

(* C6: any two successful resolve calls, of one frame or of two, with the   *)
(* same view flags, mesh topology, vertex layout, material key fragment     *)
(* and alpha mode returned the same pipeline id; and two calls that differ  *)
(* only in that one material is Opaque and the other Blend returned two     *)
(* different ids.                                                           *)
C6_KeyDeterminesPipeline ==
    \A a \in resolved, b \in resolved :
        SameButAlpha(a, b) =>
            /\ a.alpha_mode = b.alpha_mode => a.id = b.id
            /\ (a.alpha_mode = Opaque /\ b.alpha_mode = Blend) => a.id # b.id

\* a key was resolved in frame 1 and again, to the same id, in frame 2, and
\* an Opaque and a Blend material were resolved with all else equal
C6_Witness ==
    /\ \E a \in resolved, b \in resolved :
          /\ SameButAlpha(a, b) /\ a.alpha_mode = b.alpha_mode
          /\ a.frame = 1 /\ b.frame = 2 /\ a.id = b.id
    /\ \E a \in resolved, b \in resolved :
          SameButAlpha(a, b) /\ a.alpha_mode = Opaque /\ b.alpha_mode = Blend

\* the pipeline key a resolve call was made with, vertex layout included
KeyOf(c) ==
    [layout |-> c.layout,
     key |-> MaterialPipelineKey(
                 from_primitive_topology(c.topology) \cup FlagsOf(c)
                     \cup (IF c.alpha_mode = Blend THEN {"TRANSPARENT_MAIN_PASS"} ELSE {}),
                 c.fragment)]

\* the pipeline key a descriptor of the cache was compiled for
KeyOfDescriptor(d) == [layout |-> d.buffers[1].layout, key |-> d.key]

(* C7: in every state the pipeline cache holds at most one compiled         *)
(* pipeline per key, however many resolve calls were made for it, from      *)
(* whichever entities and views and in whichever order: every id a call     *)
(* returned is the index of a pipeline of the cache compiled for the        *)
(* call's key, one id is retained per key, and the cache holds exactly one  *)
(* entry per key resolved so far, so that a repeated resolve added none.    *)
C7_OnePipelinePerKey ==
    /\ \A i \in 1..Len(pipeline_cache), j \in 1..Len(pipeline_cache) :
          KeyOfDescriptor(pipeline_cache[i]) = KeyOfDescriptor(pipeline_cache[j]) => i = j
    /\ \A p \in pipelines, q \in pipelines :
          (p.layout = q.layout /\ p.key = q.key) => p.id = q.id
    /\ \A c \in resolved :
          /\ c.id \in 1..Len(pipeline_cache)
          /\ KeyOfDescriptor(pipeline_cache[c.id]) = KeyOf(c)
    /\ Len(pipeline_cache) = Cardinality({KeyOf(c) : c \in resolved})

\* one key was resolved from two entities of one view, from two views and in
\* two frames, and the cache holds a single pipeline for it
C7_Witness ==
    \E k \in {KeyOf(c) : c \in resolved} :
        /\ \E a \in resolved, b \in resolved :
              KeyOf(a) = k /\ KeyOf(b) = k /\ a.frame = 1 /\ b.frame = 2
        /\ \E v \in Views, e1 \in Entities, e2 \in Entities :
              /\ e1 # e2
              /\ CountIn(phases[v].opaque, e1) = 1 /\ CountIn(phases[v].opaque, e2) = 1
              /\ \E i \in 1..Len(phases[v].opaque), j \in 1..Len(phases[v].opaque) :
                    /\ i # j
                    /\ phases[v].opaque[i].pipeline = phases[v].opaque[j].pipeline
                    /\ KeyOfDescriptor(pipeline_cache[phases[v].opaque[i].pipeline]) = k
        /\ Cardinality({i \in 1..Len(pipeline_cache) :
                           KeyOfDescriptor(pipeline_cache[i]) = k}) = 1

----------------------------------------------------------------------------
(* Properties of the buffers over frames (SpecStale)                        *)

\* the InstanceBuffer of entity e holds the records of its snapshot of this frame
FreshBuffer(e) ==
    /\ IsSome(entities[e].data)
    /\ IsSome(instance_buffers[e])
    /\ Unwrap(instance_buffers[e]).length = Usize(Len(Unwrap(entities[e].data)))
    /\ Unwrap(instance_buffers[e]).buffer.contents = Flatten(Unwrap(entities[e].data))

(* C14: in every frame, whatever the snapshots and InstanceBuffers of the   *)
(* frame before, every queued item and every executed item is of an entity  *)
(* whose InstanceBuffer was built by this frame's Prepare from this frame's *)
(* snapshot; the execution found the InstanceBuffer, bound at slot 1 the    *)
(* buffer holding this frame's records, and its draw call has the instance  *)
(* range 0..len(this frame's snapshot), not that of the frame before.       *)
C14_BufferOfThisFrame ==
    /\ \A x \in Queued : Prepared /\ FreshBuffer(x.item.entity)
    /\ \A k \in 1..Len(pass) :
          LET e == pass[k].entity
          IN  /\ FreshBuffer(e)
              /\ pass[k].result = "Success"
              /\ pass[k].cmds[2]
                    = <<"set_vertex_buffer", 1,
                        GpuBuffer(BufferLabel, Flatten(Unwrap(entities[e].data)),
                                  {"VERTEX", "COPY_DST"})>>
              /\ \A n \in DrawCalls(pass[k].cmds) :
                    InstancesOf(pass[k].cmds[n])
                        = <<U32(0), U32(Len(Unwrap(entities[e].data)))>>

\* in frame 2 an entity whose InstanceBuffer of MaxLen records was left in
\* place by frame 1 was drawn with its one record of frame 2, and an entity
\* was drawn with a record other than its one record of frame 1
C14_Witness ==
    /\ frame = 2
    /\ IsSome(call_in)
    /\ \E e \in Entities : \E k \in 1..Len(pass) :
          /\ pass[k].entity = e
          /\ Unwrap(call_in)[e] = Some(InstanceBufferOf(SnapshotOf(MaxLen, 0)))
          /\ instance_buffers[e] = Some(InstanceBufferOf(SnapshotOf(1, 1)))
          /\ \E n \in DrawCalls(pass[k].cmds) :
                InstancesOf(pass[k].cmds[n]) = <<U32(0), U32(1)>>
    /\ \E e \in Entities : \E k \in 1..Len(pass) :
          /\ pass[k].entity = e
          /\ Unwrap(call_in)[e] = Some(InstanceBufferOf(SnapshotOf(1, 0)))
          /\ instance_buffers[e] = Some(InstanceBufferOf(SnapshotOf(1, 1)))

----------------------------------------------------------------------------
(* Properties of the phase queues over frames (SpecQueues)                  *)

\* entity e is in the visibility list of view v
Visible(v, e) == \E i \in 1..Len(views[v].visible) : views[v].visible[i] = e

\* number of phase items of entity e the frame before left in the queues of view v
QueuedBefore(v, e) ==
    IF IsSome(call_in)
    THEN CountIn(Unwrap(call_in)[v].opaque, e) + CountIn(Unwrap(call_in)[v].alpha_mask, e)
             + CountIn(Unwrap(call_in)[v].transparent, e)
    ELSE 0

(* C19: when the Queue stage of a frame starts, every phase queue of every  *)
(* view is empty, whatever the frame before queued; in every state a view   *)
(* holds at most one item per entity, and only for an entity this frame's   *)
(* Queue system queued, which is visible in the view and ready in this      *)
(* frame; an entity is drawn at most once per view and frame and only for   *)
(* an item of this frame, and at the end of the frame exactly once per      *)
(* item; so an entity queued in the frame before that is not visible or     *)
(* not ready now has no item and no draw call.                              *)
C19_QueuesOfThisFrameOnly ==
    /\ (pc \in {"extract", "prepare"} \/ (pc = "queue" /\ qlog = << >>)) => Queued = {}
    /\ \A v \in Views, e \in Entities :
          /\ QueuedItems(v, e) <= 1
          /\ QueuedItems(v, e) = 1
                => LoggedAs(v, e, {"queued"}) /\ Visible(v, e) /\ Ready(v, e)
          /\ Cardinality(PassOf(v, e)) <= QueuedItems(v, e)
          /\ pc = "cleanup" => Cardinality(PassOf(v, e)) = QueuedItems(v, e)
          /\ \A k \in PassOf(v, e) : Cardinality(DrawCalls(pass[k].cmds)) = 1
          /\ (QueuedBefore(v, e) > 0 /\ pc # "extract" /\ ~(Visible(v, e) /\ Ready(v, e)))
                => QueuedItems(v, e) = 0 /\ PassOf(v, e) = {}

\* frame 2 is over; an entity queued in frame 1 for a view that does not see
\* it in frame 2 has no item and no draw there, one whose material is no
\* longer resident has none, and one queued in both frames has one item and
\* one draw call in frame 2
C19_Witness ==
    /\ frame = 2 /\ pc = "cleanup"
    /\ \E v \in Views, e \in Entities :
          /\ QueuedBefore(v, e) = 1 /\ ~Visible(v, e)
          /\ QueuedItems(v, e) = 0 /\ PassOf(v, e) = {}
    /\ \E v \in Views, e \in Entities :
          /\ QueuedBefore(v, e) = 1 /\ Visible(v, e) /\ ~Ready(v, e)
          /\ QueuedItems(v, e) = 0 /\ PassOf(v, e) = {}
    /\ \E v \in Views, e \in Entities :
          /\ QueuedBefore(v, e) = 1 /\ QueuedItems(v, e) = 1
          /\ Cardinality(PassOf(v, e)) = 1
          /\ \A k \in PassOf(v, e) : Cardinality(DrawCalls(pass[k].cmds)) = 1

----------------------------------------------------------------------------
(* Properties of the view key (SpecViews)                                   *)

MsaaFlags == {"MSAA_1", "MSAA_2", "MSAA_4", "MSAA_8"}

\* the mesh key of the pipeline a resolve call returned
MeshKeyOfCall(c) == pipeline_cache[c.id].key.mesh_key

(* C11: the key of every resolved pipeline holds the multisample fragment   *)
(* of the frame's sample count and no other, holds the HDR flag exactly     *)
(* when the view is HDR, holds TONEMAP_IN_SHADER exactly when the view has  *)
(* Tonemapping::Enabled and is not HDR, and holds DEBAND_DITHER exactly     *)
(* when it holds TONEMAP_IN_SHADER and deband_dither is set; so dither      *)
(* implies tonemapping-in-shader and an HDR view has neither flag.          *)
C11_ViewKeyFlags ==
    \A c \in resolved :
        LET key == MeshKeyOfCall(c)
            enabled == IsSome(c.tonemapping) /\ Unwrap(c.tonemapping).enabled
            dither == enabled /\ Unwrap(c.tonemapping).deband_dither
        IN  /\ key \cap MsaaFlags = from_msaa_samples(c.samples)
            /\ ("HDR" \in key) <=> c.hdr
            /\ ("TONEMAP_IN_SHADER" \in key) <=> (enabled /\ ~c.hdr)
            /\ ("DEBAND_DITHER" \in key) <=> ("TONEMAP_IN_SHADER" \in key /\ dither)
            /\ ("DEBAND_DITHER" \in key) => ("TONEMAP_IN_SHADER" \in key)
            /\ c.hdr => key \cap {"TONEMAP_IN_SHADER", "DEBAND_DITHER"} = {}

\* in one frame, at sample count 2, a pipeline was resolved for an HDR view
\* with dithering tonemapping and for a non-HDR view with dithering tonemapping
C11_Witness ==
    /\ \E c \in resolved :
          c.hdr /\ c.tonemapping = Some(Enabled(TRUE)) /\ "HDR" \in MeshKeyOfCall(c)
    /\ \E c \in resolved :
          /\ ~c.hdr /\ c.tonemapping = Some(Enabled(TRUE))
          /\ {"TONEMAP_IN_SHADER", "DEBAND_DITHER"} \subseteq MeshKeyOfCall(c)
    /\ msaa = 2

(* C16: the mesh key of every resolved pipeline holds the transparency     *)
(* flag exactly when the material's alpha mode is Blend, never for Mask(t), *)
(* and is otherwise the mesh's topology fragment together with the view     *)
(* fragment; an Opaque and a Mask(t) resolve call with equal view, mesh     *)
(* and material key fragment were made with equal pipeline keys and         *)
(* returned the same pipeline id; and in a view, the items of an Opaque     *)
(* and of a Mask(t) entity with equal mesh and material key fragment hold   *)
(* the same pipeline id, the one in the opaque and the other in the         *)
(* alpha-mask queue.                                                        *)
C16_MaskSharesOpaquePipeline ==
    /\ \A c \in resolved :
          /\ ("TRANSPARENT_MAIN_PASS" \in MeshKeyOfCall(c)) <=> (c.alpha_mode.tag = "Blend")
          /\ MeshKeyOfCall(c) \ {"TRANSPARENT_MAIN_PASS"}
                = from_primitive_topology(c.topology) \cup FlagsOf(c)
    /\ \A a \in resolved, b \in resolved :
          (SameButAlpha(a, b) /\ a.alpha_mode.tag = "Opaque" /\ b.alpha_mode.tag = "Mask")
          => /\ a.id = b.id
             /\ pipeline_cache[a.id].key = pipeline_cache[b.id].key
    /\ \A x \in Queued, y \in Queued :
          LET ex == entities[x.item.entity]
              ey == entities[y.item.entity]
          IN  (/\ x.view = y.view
               /\ ex.mesh = ey.mesh
               /\ Material(Unwrap(ex.material)).key = Material(Unwrap(ey.material)).key
               /\ Material(Unwrap(ex.material)).alpha_mode.tag = "Opaque"
               /\ Material(Unwrap(ey.material)).alpha_mode.tag = "Mask")
              => /\ x.phase = "opaque" /\ y.phase = "alpha_mask"
                 /\ x.item.pipeline = y.item.pipeline

\* in one view an Opaque entity is in the opaque queue and a Mask(3) entity
\* of the same mesh and material key fragment is in the alpha-mask queue,
\* with the same pipeline id, and a Blend entity of that mesh and fragment is
\* in the transparent queue with another
C16_Witness ==
    \E x \in Queued, y \in Queued, z \in Queued :
        /\ x.view = y.view /\ y.view = z.view
        /\ entities[x.item.entity].material = Some("matO")
        /\ entities[y.item.entity].material = Some("matM2")
        /\ entities[z.item.entity].material = Some("matB")
        /\ entities[x.item.entity].mesh = entities[y.item.entity].mesh
        /\ entities[x.item.entity].mesh = entities[z.item.entity].mesh
        /\ x.phase = "opaque" /\ y.phase = "alpha_mask" /\ z.phase = "transparent"
        /\ x.item.pipeline = y.item.pipeline
        /\ x.item.pipeline # z.item.pipeline

\* the pipeline key the Queue system builds for entity e in view v
KeyIn(v, e) ==
    LET material == Material(Unwrap(entities[e].material))
        mesh == GpuMesh(Unwrap(entities[e].mesh))
    IN  MaterialPipelineKey(
            MeshKey(mesh.primitive_topology,
                    ViewKey(msaa, views[v].hdr, views[v].tonemapping),
                    material.alpha_mode),
            material.key)

\* the vertex layout of the mesh of entity e
LayoutOf(e) == GpuMesh(Unwrap(entities[e].mesh)).layout

\* the 0-based vertex-buffer slots of a descriptor that hold the instance layout
InstanceSlots(d) == {i - 1 : i \in {j \in 1..Len(d.buffers) : d.buffers[j] = InstanceBufferLayout}}

(* C17: every descriptor the pipeline cache holds is the descriptor of the  *)
(* base material pipeline for its key and mesh layout with one vertex       *)
(* buffer more, the instance layout, as the last one, in the slot after     *)
(* the mesh's own vertex buffer; that slot is 1, the slot at which the      *)
(* execution of every item drawn with the pipeline bound the entity's       *)
(* instance buffer; and when the base specialization failed, the error      *)
(* logged is the base's error and the cache holds no descriptor for the     *)
(* key.                                                                     *)
C17_InstanceLayoutAtSlotOne ==
    /\ \A i \in 1..Len(pipeline_cache) :
          LET d == pipeline_cache[i]
              base == MaterialSpecialize(d.key, d.buffers[1].layout)
          IN  /\ base.ok
              /\ Len(d.buffers) = Len(base.val.buffers) + 1
              /\ SubSeq(d.buffers, 1, Len(d.buffers) - 1) = base.val.buffers
              /\ d.buffers[Len(d.buffers)] = InstanceBufferLayout
              /\ [d EXCEPT !.buffers = base.val.buffers] = base.val
              /\ InstanceSlots(d) = {1}
    /\ \A k \in 1..Len(pass) :
          pass[k].result = "Success" =>
              \A s \in InstanceSlots(pipeline_cache[RenderList[k].item.pipeline]) :
                  \E n \in 1..Len(pass[k].cmds) :
                      pass[k].cmds[n] = <<"set_vertex_buffer", s,
                                          Unwrap(instance_buffers[pass[k].entity]).buffer>>
    /\ \A k \in 1..Len(errors) :
          LET base == MaterialSpecialize(KeyIn(errors[k].view, errors[k].entity),
                                         LayoutOf(errors[k].entity))
          IN  /\ ~base.ok
              /\ errors[k].err = base.val
              /\ \A i \in 1..Len(pipeline_cache) :
                    KeyOfDescriptor(pipeline_cache[i])
                        # [layout |-> LayoutOf(errors[k].entity),
                           key |-> KeyIn(errors[k].view, errors[k].entity)]

\* a frame in which the base specialization failed for one entity and
\* succeeded for another, whose item was drawn with the instance buffer bound
\* at slot 1, the slot of the instance layout in its pipeline's descriptor
C17_Witness ==
    /\ Len(errors) > 0
    /\ errors[1].err = "MissingVertexAttribute"
    /\ \E k \in 1..Len(pass) :
          /\ pass[k].result = "Success"
          /\ pipeline_cache[RenderList[k].item.pipeline].buffers
                = <<[step_mode |-> "Vertex", layout |-> LayoutOf(pass[k].entity)],
                    InstanceBufferLayout>>
          /\ pass[k].cmds[2] = <<"set_vertex_buffer", 1,
                                 Unwrap(instance_buffers[pass[k].entity]).buffer>>

----------------------------------------------------------------------------
(* Properties of the sort distance (SpecSort)                               *)

\* the view-space distance of the entity of a queued item from its view
DistanceOf(x) == RangefinderDistance(x.view, entities[x.item.entity].transform)

\* the depth bias of the material of the entity of a queued item
BiasOf(x) == Material(Unwrap(entities[x.item.entity].material)).depth_bias

\* the whole number x is an f32
Representable(x) == Abs(x) % Ulp(x) = 0

(* C12 as stated: the sort distance of every queued item is the view-space  *)
(* distance of its entity plus the depth bias of its material, a bias b     *)
(* raising it by exactly b at any distance and for any alpha mode, and for  *)
(* two items of zero bias d1 < d2 implies sort(d1) < sort(d2).              *)
C12_ExactBias ==
    /\ \A x \in Queued : x.item.distance - DistanceOf(x) = BiasOf(x)
    /\ \A x \in Queued, y \in Queued :
          (BiasOf(x) = 0 /\ BiasOf(y) = 0 /\ DistanceOf(x) < DistanceOf(y))
          => x.item.distance < y.item.distance

(* C12 amended: the sort distance of every queued item is the f32 nearest   *)
(* to distance + bias, the same for all three phases (items of equal        *)
(* distance and bias have equal sort distances whatever their queue); with  *)
(* zero bias it is the distance itself, so d1 < d2 implies sort(d1) <       *)
(* sort(d2); a bias b raises it by exactly b whenever distance + b is an    *)
(* f32, and otherwise by b to within half a unit in the last place; and     *)
(* for equal bias d1 <= d2 implies sort(d1) <= sort(d2).                    *)
C12_SortDistance ==
    /\ \A x \in Queued :
          LET sum == DistanceOf(x) + BiasOf(x)
          IN  /\ Representable(x.item.distance)
              /\ 2 * Abs(x.item.distance - sum) <= Ulp(sum)
              /\ Representable(sum) => x.item.distance - DistanceOf(x) = BiasOf(x)
              /\ BiasOf(x) = 0 => x.item.distance = DistanceOf(x)
    /\ \A x \in Queued, y \in Queued :
          /\ (BiasOf(x) = 0 /\ BiasOf(y) = 0 /\ DistanceOf(x) < DistanceOf(y))
             => x.item.distance < y.item.distance
          /\ (BiasOf(x) = BiasOf(y) /\ DistanceOf(x) = DistanceOf(y))
             => x.item.distance = y.item.distance
          /\ (BiasOf(x) = BiasOf(y) /\ DistanceOf(x) <= DistanceOf(y))
             => x.item.distance <= y.item.distance

\* a Blend item of bias 1 at distance 2^24 has sort distance 2^24, one at
\* distance 2^24 - 1 has sort distance 2^24 too, and an Opaque and a Mask item
\* of zero bias at one distance have one sort distance
C12_Witness ==
    /\ \E x \in Queued :
          /\ x.phase = "transparent" /\ BiasOf(x) = 1
          /\ DistanceOf(x) = 2^F32Bits /\ x.item.distance = 2^F32Bits
    /\ \E x \in Queued :
          /\ x.phase = "transparent" /\ BiasOf(x) = 1
          /\ DistanceOf(x) = 2^F32Bits - 1 /\ x.item.distance = 2^F32Bits
    /\ \E x \in Queued, y \in Queued :
          /\ x.phase = "opaque" /\ y.phase = "alpha_mask"
          /\ BiasOf(x) = 0 /\ BiasOf(y) = 0
          /\ DistanceOf(x) = DistanceOf(y) /\ x.item.distance = y.item.distance

----------------------------------------------------------------------------
(* Properties of DrawMeshInstanced::render (SpecRender)                     *)

\* a usize that fits in 32 bits
FitsU32(x) == x[1] = 0 /\ x[2] = 0

(* C8: when the mesh record is found and the InstanceBuffer's length fits   *)
(* in 32 bits, render returns Success and records: the mesh vertex buffer   *)
(* at slot 0, the instance buffer at slot 1, then for a mesh with index     *)
(* data the index buffer and one indexed draw over indices 0..count, and    *)
(* otherwise one draw over vertices 0..vertex_count; the draw is the only   *)
(* draw call, the last command, and its instance range is 0..length.        *)
C8_RenderRecordsOneDraw ==
    (pc = "returned" /\ IsSome(Unwrap(call_in).gpu_mesh)
        /\ FitsU32(Unwrap(call_in).instance_buffer.length)) =>
        LET mesh == Unwrap(Unwrap(call_in).gpu_mesh)
            info == mesh.buffer_info
            buf == Unwrap(call_in).instance_buffer
            cmds == Unwrap(call_out).cmds
            instances == <<U32(0), <<buf.length[3], buf.length[4]>> >>
        IN  /\ Unwrap(call_out).result = "Success"
            /\ <<0, 0>> \o instances[2] = buf.length
            /\ Len(cmds) = (IF info.indexed THEN 4 ELSE 3)
            /\ cmds[1] = <<"set_vertex_buffer", 0, mesh.vertex_buffer>>
            /\ cmds[2] = <<"set_vertex_buffer", 1, buf.buffer>>
            /\ DrawCalls(cmds) = {Len(cmds)}
            /\ IF info.indexed
               THEN /\ cmds[3] = <<"set_index_buffer", info.buffer, 0, info.index_format>>
                    /\ cmds[4] = <<"draw_indexed", <<0, info.count>>, 0, instances>>
               ELSE cmds[3] = <<"draw", <<0, info.count>>, instances>>

\* an indexed mesh of 36 indices was drawn with 2^32 - 1 instances
C8_Witness ==
    /\ pc = "returned"
    /\ Unwrap(call_out).result = "Success"
    /\ Len(Unwrap(call_out).cmds) = 4
    /\ Unwrap(call_out).cmds[4]
          = <<"draw_indexed", <<0, 36>>, 0, <<U32(0), <<65535, 65535>> >> >>

----------------------------------------------------------------------------
(* Properties of the Render stage (SpecPass)                                *)

\* the mesh record of entity e is in RenderAssets<Mesh>
MeshResident(e) == Unwrap(entities[e].mesh) \in render_meshes

(* C13: every executed item whose mesh record is not found has the result   *)
(* Failure and recorded no command on the pass, neither a vertex-buffer     *)
(* nor an index-buffer binding nor a draw; and the failure is that item's   *)
(* alone: at the end of the Render stage every phase item of every view     *)
(* was executed, in order, and every item whose mesh record is found has    *)
(* the result Success and one draw call, also after a failed item.          *)
C13_FailureConfinedToItem ==
    /\ \A k \in 1..Len(pass) :
          ~MeshResident(pass[k].entity)
          => pass[k].result = "Failure" /\ pass[k].cmds = << >>
    /\ pc = "cleanup" =>
          /\ Len(pass) = Len(RenderList)
          /\ \A k \in 1..Len(pass) :
                /\ pass[k].entity = RenderList[k].item.entity
                /\ pass[k].view = RenderList[k].view
                /\ MeshResident(pass[k].entity)
                   => /\ pass[k].result = "Success"
                      /\ Cardinality(DrawCalls(pass[k].cmds)) = 1

\* the Render stage is over; an item failed for its missing mesh record, the
\* next item of the same phase and an item of the next view were drawn
C13_Witness ==
    /\ pc = "cleanup"
    /\ \E k \in 1..(Len(pass) - 1), j \in 1..Len(pass) :
          /\ pass[k].result = "Failure" /\ pass[k].cmds = << >>
          /\ pass[k + 1].view = pass[k].view /\ pass[k + 1].result = "Success"
          /\ j > k /\ pass[j].view # pass[k].view /\ pass[j].result = "Success"

----------------------------------------------------------------------------
(* Properties of prepare_instance_buffers (SpecPrepare)                     *)

(* C10: after prepare_instance_buffers every entity that holds a snapshot   *)
(* S has an InstanceBuffer of record count len(S) whose buffer holds        *)
(* len(S) * size_of(record) bytes, the records of S in snapshot order,      *)
(* whatever InstanceBuffer it had before; an entity without a snapshot is   *)
(* given none: it has what it had before.                                   *)
C10_BufferOfSnapshot ==
    pc = "queue" =>
        \A e \in Entities :
            IF IsSome(entities[e].data)
            THEN LET S == Unwrap(entities[e].data)
                     b == Unwrap(instance_buffers[e])
                 IN  /\ IsSome(instance_buffers[e])
                     /\ b.length = Usize(Len(S))
                     /\ Len(b.buffer.contents) = Len(S) * RecordSize
                     /\ \A i \in 1..Len(S) :
                           SubSeq(b.buffer.contents,
                                  (i - 1) * RecordSize + 1, i * RecordSize) = S[i]
            ELSE instance_buffers[e] = Unwrap(call_in)[e]

\* an entity that had an InstanceBuffer and holds a snapshot of 3 records has
\* a buffer of 3 records, and an entity without a snapshot has no buffer
C10_Witness ==
    /\ pc = "queue"
    /\ \E e \in Entities :
          /\ Unwrap(call_in)[e] = Some(StaleBuffer)
          /\ IsSome(entities[e].data)
          /\ Len(Unwrap(entities[e].data)) = 3
          /\ Unwrap(instance_buffers[e]).length = Usize(3)
    /\ \E e \in Entities : entities[e].data = None /\ instance_buffers[e] = None

====
